---- MODULE Spec2Model ----
(***************************************************************************)
(* A model of src/src/App.vue: the ganzhi core of the application          *)
(* (hour pillar, five-element percentages, shensha markers, ten-god        *)
(* relation, day ranking).                                                 *)
(*                                                                         *)
(* Chinese characters are written in pinyin with the tone number, one      *)
(* token per character, so that every character of the source has its own  *)
(* token:                                                                  *)
(*   stems     jia3 yi3 bing3 ding1 wu4 ji3 geng1 xin1 ren2 gui3           *)
(*   branches  zi3 chou3 yin2 mao3 chen2 si4 wu3 wei4 shen1 you3 xu1 hai4  *)
(* A string of the source is a sequence of tokens; "" is << >>.            *)
(***************************************************************************)
EXTENDS Integers, Sequences, FiniteSets, TLC

VARIABLES
    \* computeFiveFromBazi (lines 110-121)
    stemWeight, branchWeight,   \* the two weight arguments, IEEE doubles
    acc,                        \* the accumulator of the loop, 0..4 -> double
    nPillars,                   \* pillars of the filtered list consumed so far
    nUnknown,                   \* pillars consumed so far with a character in no table
    fivePc,                     \* "idle" | "loop" | "done"
    five,                       \* the returned percentages, 0..4 -> Int
    \* getHourPillar (lines 73-78)
    hpDayStem, hpHour,          \* the arguments dayStem and hour
    hourPillar,                 \* the returned pillar, << >> before the call
    \* analyzeFortune (lines 129-135)
    afBazi, afDayStem,          \* the arguments bazi and dayStem
    fortune,                    \* the returned record
    afPc,                       \* "idle" | "call" | "done"
    \* bestDays (lines 398-408)
    derivedDayStem,             \* derivedDayStem.value, the reference stem
    eventType,                  \* eventType.value
    today,                      \* the day dayjs() falls on, counted from a jia3-zi3 day, mod 60
    res,                        \* the array res of the last evaluation, << >> when there is none
    bestDays,                   \* bestDays.value
    \* computeShenSha (lines 206-284)
    ssYear, ssMonth, ssDay, ssHour,   \* the arguments gzYear, gzMonth, gzDay, gzHour
    shensha,                    \* the returned list
    ssPc,                       \* "idle" | "call" | "done"
    \* the pillar derivations (lines 189-204, 311-350)
    activeProfile,              \* activeProfile.value
    form,                       \* form.value
    derivedHourPillar,          \* derivedHourPillar.value
    activeBazi,                 \* activeBazi.value: << >> is null, <<b>> the object b
    formPreview,                \* formPreview.value: << >> is null, <<v>> the object v
    chartData,                  \* the data renderFiveChart draws, 0..4 -> Int
    solarMoment,                \* what toTrueSolar returned last, << >> before its first call
    evaluated,                  \* the computed values and renderings that have run
    \* the profile list (lines 146-154, 285-308)
    profiles,                   \* profiles.value
    activeProfileId,            \* activeProfileId.value
    editing,                    \* editing.value
    \* the exports (lines 511-517, 601-729)
    exporting,                  \* exporting.value
    invocations                 \* the calls of exportPdf and exportPdfFull: what was called and where it is

fiveVars == <<stemWeight, branchWeight, acc, nPillars, nUnknown, fivePc, five>>
hourVars == <<hpDayStem, hpHour, hourPillar>>
fortuneVars == <<afBazi, afDayStem, fortune, afPc>>
rankVars == <<derivedDayStem, eventType, today, res, bestDays>>
shenshaVars == <<ssYear, ssMonth, ssDay, ssHour, shensha, ssPc>>
deriveVars == <<activeProfile, form, derivedHourPillar, activeBazi, formPreview, chartData,
                solarMoment, evaluated>>
profileVars == <<profiles, activeProfileId, editing>>
exportVars == <<exporting, invocations>>
vars == <<fiveVars, hourVars, fortuneVars, rankVars, shenshaVars, deriveVars, profileVars, exportVars>>

-----------------------------------------------------------------------------
(* Strings and tables *)

\* A string of several characters is a sequence of tokens; a string of one
\* character is its token, and the empty string is "".
\* String.prototype.charAt: the i-th character (0-based), "" past the end.
CharAt(s, i) == IF i + 1 <= Len(s) THEN s[i + 1] ELSE ""

\* String.prototype.includes for a search string c of at most one character:
\* the empty string is included in every string.
StrIncludes(s, c) == c = "" \/ \E i \in 1..Len(s) : s[i] = c

\* Array.prototype.includes
ArrIncludes(a, x) == \E i \in 1..Len(a) : a[i] = x

\* The ten stems and twelve branches, in cycle order.
Stems == <<"jia3", "yi3", "bing3", "ding1", "wu4", "ji3", "geng1", "xin1", "ren2", "gui3">>
hourBranches == <<"zi3", "chou3", "yin2", "mao3", "chen2", "si4", "wu3", "wei4", "shen1", "you3", "xu1", "hai4">>

StemSet == {Stems[i] : i \in 1..Len(Stems)}
BranchSet == {hourBranches[i] : i \in 1..Len(hourBranches)}

\* elemIdx: 0 metal, 1 wood, 2 water, 3 fire, 4 earth.
elemIdx == [jin1 |-> 0, mu4 |-> 1, shui3 |-> 2, huo3 |-> 3, tu3 |-> 4]
ElemIdxs == 0..4

\* stemElem / branchElem: Record<string, number>; a key that is absent reads
\* as undefined, modelled as -1 ("si != null" is "si # -1").
Undefined == 0 - 1

stemElem(s) ==
    CASE s \in {"jia3", "yi3"}   -> elemIdx.mu4
      [] s \in {"bing3", "ding1"} -> elemIdx.huo3
      [] s \in {"wu4", "ji3"}     -> elemIdx.tu3
      [] s \in {"geng1", "xin1"}  -> elemIdx.jin1
      [] s \in {"ren2", "gui3"}   -> elemIdx.shui3
      [] OTHER -> Undefined

branchElem(b) ==
    CASE b \in {"zi3", "hai4"}                  -> elemIdx.shui3
      [] b \in {"chou3", "chen2", "wei4", "xu1"} -> elemIdx.tu3
      [] b \in {"yin2", "mao3"}                  -> elemIdx.mu4
      [] b \in {"si4", "wu3"}                    -> elemIdx.huo3
      [] b \in {"shen1", "you3"}                 -> elemIdx.jin1
      [] OTHER -> Undefined

-----------------------------------------------------------------------------
(* IEEE-754 binary64 arithmetic, as far as normalizePercents uses it.       *)
(* A non-negative double is [m, e]: the value m * 2^e with 2^52 <= m < 2^53 *)
(* (or m = 0, e = 0).  The mantissa is a pair <<hi, lo>> of 30-bit limbs,   *)
(* hi * 2^30 + lo, because TLC's integers are 32 bits wide.  Every          *)
(* operation returns the exact result rounded to nearest, ties to even.     *)

Limb == 2^30

BigZero == <<0, 0>>
BigOne == <<0, 1>>
BigOfInt(n) == <<n \div Limb, n % Limb>>
BigToInt(a) == a[1] * Limb + a[2]
BigIsZero(a) == a = BigZero
BigLt(a, b) == a[1] < b[1] \/ (a[1] = b[1] /\ a[2] < b[2])
BigOdd(a) == a[2] % 2 = 1
BigAdd(a, b) ==
    LET lo == a[2] + b[2] IN <<a[1] + b[1] + (lo \div Limb), lo % Limb>>
BigSub(a, b) ==
    LET lo == a[2] - b[2]
    IN  IF lo >= 0 THEN <<a[1] - b[1], lo>> ELSE <<a[1] - b[1] - 1, lo + Limb>>
BigDouble(a) == BigAdd(a, a)

\* a * 2^n, the result below 2^60
BigShl(a, n) ==
    IF n >= 30 THEN <<a[2] * 2^(n - 30), 0>>
    ELSE LET cut == 2^(30 - n)
         IN  <<a[1] * 2^n + (a[2] \div cut), (a[2] % cut) * 2^n>>

\* floor(a / 2^n)
BigShr(a, n) ==
    IF n >= 60 THEN BigZero
    ELSE IF n >= 30 THEN <<0, a[1] \div 2^(n - 30)>>
    ELSE <<a[1] \div 2^n, (a[2] \div 2^n) + (a[1] % 2^n) * 2^(30 - n)>>

\* a * g for a < 2^53 and 0 <= g < 2^7 (the low limb is multiplied in two
\* 15-bit halves, so that no intermediate result reaches 2^31)
BigMulSmall(a, g) ==
    LET t1 == (a[2] \div 2^15) * g
        lo == (t1 % 2^15) * 2^15 + (a[2] % 2^15) * g
    IN  <<a[1] * g + (t1 \div 2^15) + (lo \div Limb), lo % Limb>>

\* the number of bits of n
BitLen2(n) == IF n >= 2 THEN 2 ELSE n
BitLen4(n) == LET s == IF n >= 4 THEN 2 ELSE 0 IN s + BitLen2(n \div 2^s)
BitLen8(n) == LET s == IF n >= 16 THEN 4 ELSE 0 IN s + BitLen4(n \div 2^s)
BitLen16(n) == LET s == IF n >= 256 THEN 8 ELSE 0 IN s + BitLen8(n \div 2^s)
BitLen(n) == LET s == IF n >= 65536 THEN 16 ELSE 0 IN s + BitLen16(n \div 2^s)
BigBitLen(a) == IF a[1] > 0 THEN 30 + BitLen(a[1]) ELSE BitLen(a[2])

Two52 == <<2^22, 0>>
Two53 == <<2^23, 0>>

FZero == [m |-> BigZero, e |-> 0]
FIsZero(x) == BigIsZero(x.m)

\* m * 2^e (plus, when sticky, a positive amount below one unit of m) rounded
\* to a double.
\* The mantissa r after rounding, at exponent e: r = 2^53 is renormalised.
PackRounded(r, e) ==
    IF r = Two53 THEN [m |-> Two52, e |-> e + 1] ELSE [m |-> r, e |-> e]

\* Round to nearest, ties to even: q is m without its low sh bits, and low is
\* those bits.
RoundsUp(q, low, half, sticky) ==
    BigLt(half, low) \/ (low = half /\ (sticky \/ BigOdd(q)))
PackShifted(m, e, sticky, sh, q) ==
    IF RoundsUp(q, BigSub(m, BigShl(q, sh)), BigShl(BigOne, sh - 1), sticky)
    THEN PackRounded(BigAdd(q, BigOne), e + sh)
    ELSE PackRounded(q, e + sh)
PackLen(m, e, sticky, len) ==
    IF len = 0 THEN FZero
    ELSE IF len <= 53 THEN [m |-> BigShl(m, 53 - len), e |-> e - (53 - len)]
    ELSE PackShifted(m, e, sticky, len - 53, BigShr(m, len - 53))
Pack(m, e, sticky) == PackLen(m, e, sticky, BigBitLen(m))

FromInt(n) == Pack(BigOfInt(n), 0, FALSE)

FLt(x, y) ==
    IF FIsZero(y) THEN FALSE
    ELSE IF FIsZero(x) THEN TRUE
    ELSE x.e < y.e \/ (x.e = y.e /\ BigLt(x.m, y.m))

\* x + y: the smaller operand is aligned with three extra bits and a sticky bit
FAdd(x, y) ==
    IF FIsZero(x) THEN y
    ELSE IF FIsZero(y) THEN x
    ELSE LET hi == IF x.e >= y.e THEN x ELSE y
             lo == IF x.e >= y.e THEN y ELSE x
             l3 == BigShl(lo.m, 3)
             sh == BigShr(l3, hi.e - lo.e)
             st == IF hi.e - lo.e >= 60 THEN TRUE ELSE BigShl(sh, hi.e - lo.e) # l3
         IN  Pack(BigAdd(BigShl(hi.m, 3), sh), hi.e - 3, st)

\* One step of long division in base 2^7: for a remainder r < d the pair
\* <<g, r * 2^7 - g * d>> with the digit g = floor(r * 2^7 / d).  The digit is
\* estimated from the leading bits, floor(r / 2^23) \div (floor(d / 2^30) + 1),
\* which is g or g - 1 for 2^52 <= d < 2^53, and corrected by one comparison.
DivCorrect(g0, r0, d) ==
    IF BigLt(r0, d) THEN <<g0, r0>> ELSE <<g0 + 1, BigSub(r0, d)>>
DivDigit(r, d, g0) == DivCorrect(g0, BigSub(BigShl(r, 7), BigMulSmall(d, g0)), d)
DivStep(r, d) == DivDigit(r, d, BigToInt(BigShr(r, 23)) \div (d[1] + 1))

\* The quotient so far with one more digit: s is the result of DivStep.
DivAppend(q, s) == <<BigAdd(BigShl(q, 7), BigOfInt(s[1])), s[2]>>

\* k more digits for st = <<quotient so far, remainder>>; once the remainder
\* is 0 every further digit is 0.
RECURSIVE DivLoop(_, _, _)
DivLoop(st, d, k) ==
    IF k = 0 THEN st
    ELSE IF BigIsZero(st[2]) THEN <<BigShl(st[1], 7 * k), st[2]>>
    ELSE DivLoop(DivAppend(st[1], DivStep(st[2], d)), d, k - 1)

\* x / y, y # 0: the quotient of the mantissas to 56 binary places, as a
\* leading bit and eight base-2^7 digits, then rounded
FDivFrom(x, y, lead) ==
    DivLoop(<<BigOfInt(lead), IF lead = 1 THEN BigSub(x.m, y.m) ELSE x.m>>, y.m, 8)
FDivPack(x, y, qr) ==
    IF BigIsZero(qr[2]) THEN Pack(qr[1], x.e - y.e - 56, FALSE)
    ELSE Pack(qr[1], x.e - y.e - 56, TRUE)
FDiv(x, y) ==
    IF FIsZero(x) THEN FZero
    ELSE FDivPack(x, y, FDivFrom(x, y, IF BigLt(x.m, y.m) THEN 0 ELSE 1))

\* x * k for a small integer k (k < 2^7: the product of the mantissas is exact)
FMulInt(x, k) == IF FIsZero(x) THEN FZero ELSE Pack(BigMulSmall(x.m, k), x.e, FALSE)

\* Math.floor(x) for 0 <= x < 2^31
FFloor(x) == IF x.e >= 0 THEN BigToInt(BigShl(x.m, x.e)) ELSE BigToInt(BigShr(x.m, 0 - x.e))

\* x - Math.floor(x): exact, its bits are the bits of x below the binary point
FFrac(x) ==
    IF x.e >= 0 THEN FZero
    ELSE IF 0 - x.e >= 60 THEN x
    ELSE LET n == 0 - x.e
         IN  Pack(BigSub(x.m, BigShl(BigShr(x.m, n), n)), x.e, FALSE)

FHalf == [m |-> Two52, e |-> 0 - 53]

\* Math.round(x), x >= 0: the nearest integer, a tie going up
FRound(x) == FFloor(x) + (IF FLt(FFrac(x), FHalf) THEN 0 ELSE 1)

-----------------------------------------------------------------------------
(* normalizePercents, lines 94-108 *)

\* vals.reduce((a,b)=>a+b, 0) for the five entries of vals: left to right from 0
ReduceAdd(vals) == FAdd(FAdd(FAdd(FAdd(FAdd(FZero, vals[0]), vals[1]), vals[2]), vals[3]), vals[4])

\* (a,b) => a.frac - b.frac, by its sign: the ascending comparator
byFracAscending(a, b) ==
    IF FLt(a.frac, b.frac) THEN 0 - 1 ELSE IF FLt(b.frac, a.frac) THEN 1 ELSE 0

\* The comparator of line 99, (a,b) => b.frac - a.frac, by its sign
byFracDescending(a, b) ==
    IF FLt(b.frac, a.frac) THEN 0 - 1 ELSE IF FLt(a.frac, b.frac) THEN 1 ELSE 0

\* Array.prototype.sort is stable: an element goes after every element already
\* placed that the comparator does not put behind it.
RECURSIVE InsertByFrac(_, _)
InsertByFrac(sorted, x) ==
    IF sorted = <<>> THEN <<x>>
    ELSE IF byFracDescending(Head(sorted), x) > 0 THEN <<x>> \o sorted
    ELSE <<Head(sorted)>> \o InsertByFrac(Tail(sorted), x)

RECURSIVE SortByFrac(_, _)
SortByFrac(list, sorted) ==
    IF list = <<>> THEN sorted
    ELSE SortByFrac(Tail(list), InsertByFrac(sorted, Head(list)))

\* the body always taking the first entry of fracs
loopBodyNoCycle(st, fracs) ==
    IF st.diff # 0 /\ Len(fracs) # 0
    THEN LET idx == fracs[1].i
         IN  [rounded |-> [st.rounded EXCEPT ![idx] = @ + (IF st.diff > 0 THEN 1 ELSE 0 - 1)],
              diff    |-> st.diff + (IF st.diff > 0 THEN 0 - 1 ELSE 1),
              k       |-> st.k + 1]
    ELSE st

\* The while loop of lines 101-106 on st = [rounded, diff, k]: loopBody is
\* the test and one pass through the body; the loop is taken five bodies at
\* a time, which keeps the recursion shallow.
loopBody(st, fracs) ==
    IF st.diff # 0 /\ Len(fracs) # 0
    THEN LET idx == fracs[(st.k % Len(fracs)) + 1].i
         IN  [rounded |-> [st.rounded EXCEPT ![idx] = @ + (IF st.diff > 0 THEN 1 ELSE 0 - 1)],
              diff    |-> st.diff + (IF st.diff > 0 THEN 0 - 1 ELSE 1),
              k       |-> st.k + 1]
    ELSE st
loopBody5(st, fracs) ==
    loopBody(loopBody(loopBody(loopBody(loopBody(st, fracs), fracs), fracs), fracs), fracs)

\* "return rounded" with the loop left out
returnRounded(st, fracs) == st.rounded

RECURSIVE distribute(_, _)
distribute(st, fracs) ==
    IF st.diff # 0 /\ Len(fracs) # 0 THEN distribute(loopBody5(st, fracs), fracs)
    ELSE st.rounded

SumInts(f) == f[0] + f[1] + f[2] + f[3] + f[4]

\* line 96: vals.map(v => (v / sum) * 100)
rawPercents(vals, sum) ==
    <<FMulInt(FDiv(vals[0], sum), 100), FMulInt(FDiv(vals[1], sum), 100),
      FMulInt(FDiv(vals[2], sum), 100), FMulInt(FDiv(vals[3], sum), 100),
      FMulInt(FDiv(vals[4], sum), 100)>>

\* line 97: raw.map(v => Math.round(v))
roundAll(raw) ==
    (0 :> FRound(raw[1])) @@ (1 :> FRound(raw[2])) @@ (2 :> FRound(raw[3]))
        @@ (3 :> FRound(raw[4])) @@ (4 :> FRound(raw[5]))

\* line 99: raw.map((v,i) => ({i, frac: v - Math.floor(v)})).sort(...)
fracsOf(raw) ==
    SortByFrac(<<[i |-> 0, frac |-> FFrac(raw[1])], [i |-> 1, frac |-> FFrac(raw[2])],
                 [i |-> 2, frac |-> FFrac(raw[3])], [i |-> 3, frac |-> FFrac(raw[4])],
                 [i |-> 4, frac |-> FFrac(raw[5])]>>, <<>>)

\* lines 96-107, with sum the value of "vals.reduce((a,b)=>a+b, 0) || 1"
distributeFrom(rounded, fracs) ==
    distribute([rounded |-> rounded, diff |-> 100 - SumInts(rounded), k |-> 0], fracs)
percentsOfRaw(raw) == distributeFrom(roundAll(raw), fracsOf(raw))
percentsOf(vals, sum) == percentsOfRaw(rawPercents(vals, sum))

\* line 95: a sum of 0 is falsy and replaced by 1
normalizePercents(vals) ==
    LET s0 == ReduceAdd(vals)
    IN  IF FIsZero(s0) THEN percentsOf(vals, FromInt(1)) ELSE percentsOf(vals, s0)

-----------------------------------------------------------------------------
(* getHourPillar, lines 59-78 *)

hourStemTable ==
    [ jia3  |-> <<"jia3", "bing3", "wu4", "geng1", "ren2", "jia3", "bing3", "wu4", "geng1", "ren2", "jia3", "bing3">>,
      ji3   |-> <<"jia3", "bing3", "wu4", "geng1", "ren2", "jia3", "bing3", "wu4", "geng1", "ren2", "jia3", "bing3">>,
      yi3   |-> <<"yi3", "ding1", "ji3", "xin1", "gui3", "yi3", "ding1", "ji3", "xin1", "gui3", "yi3", "ding1">>,
      geng1 |-> <<"yi3", "ding1", "ji3", "xin1", "gui3", "yi3", "ding1", "ji3", "xin1", "gui3", "yi3", "ding1">>,
      bing3 |-> <<"bing3", "wu4", "geng1", "ren2", "jia3", "bing3", "wu4", "geng1", "ren2", "jia3", "bing3", "wu4">>,
      xin1  |-> <<"bing3", "wu4", "geng1", "ren2", "jia3", "bing3", "wu4", "geng1", "ren2", "jia3", "bing3", "wu4">>,
      ding1 |-> <<"ding1", "ji3", "xin1", "gui3", "yi3", "ding1", "ji3", "xin1", "gui3", "yi3", "ding1", "ji3">>,
      ren2  |-> <<"ding1", "ji3", "xin1", "gui3", "yi3", "ding1", "ji3", "xin1", "gui3", "yi3", "ding1", "ji3">>,
      wu4   |-> <<"wu4", "geng1", "ren2", "jia3", "bing3", "wu4", "geng1", "ren2", "jia3", "bing3", "wu4", "geng1">>,
      gui3  |-> <<"wu4", "geng1", "ren2", "jia3", "bing3", "wu4", "geng1", "ren2", "jia3", "bing3", "wu4", "geng1">> ]

\* idx = Math.floor(hour / 2): the slot without the shift by one hour
getHourPillarNoShift(dayStem, hour) ==
    LET idx == hour \div 2
    IN  <<(IF dayStem \in DOMAIN hourStemTable THEN hourStemTable[dayStem]
           ELSE hourStemTable["jia3"])[idx + 1], hourBranches[idx + 1]>>

\* a day stem without a row reads the row of ding1
getHourPillarDefaultDing(dayStem, hour) ==
    LET idx == ((hour + 1) % 24) \div 2
    IN  <<(IF dayStem \in DOMAIN hourStemTable THEN hourStemTable[dayStem]
           ELSE hourStemTable["ding1"])[idx + 1], hourBranches[idx + 1]>>

\* the pillar "stem + branch"; a day stem without a row reads the row of jia3
getHourPillar(dayStem, hour) ==
    LET idx    == ((hour + 1) % 24) \div 2
        branch == hourBranches[idx + 1]
        stem   == (IF dayStem \in DOMAIN hourStemTable THEN hourStemTable[dayStem]
                   ELSE hourStemTable["jia3"])[idx + 1]
    IN  <<stem, branch>>

-----------------------------------------------------------------------------
(* analyzeFortune, lines 124-135 *)

\* The relation labels, character by character.
tenGodsMap ==
    [ ding1 |-> [ jia3  |-> <<"yin4", "xing1">>,  yi3  |-> <<"pian1", "yin4">>,
                  bing3 |-> <<"bi3", "jian1">>,   ding1 |-> <<"jie2", "cai2">>,
                  wu4   |-> <<"shi2", "shen2">>,  ji3  |-> <<"shang1", "guan1">>,
                  geng1 |-> <<"guan1", "sha1">>,  xin1 |-> <<"qi1", "sha1">>,
                  ren2  |-> <<"pian1", "cai2">>,  gui3 |-> <<"zheng4", "cai2">> ],
      jia3  |-> [ geng1 |-> <<"guan1", "sha1">>,  xin1 |-> <<"qi1", "sha1">>,
                  jia3  |-> <<"bi3", "jian1">>,   yi3  |-> <<"jie2", "cai2">>,
                  bing3 |-> <<"shi2", "shen2">>,  ding1 |-> <<"shang1", "guan1">>,
                  wu4   |-> <<"pian1", "cai2">>,  ji3  |-> <<"zheng4", "cai2">>,
                  ren2  |-> <<"yin4", "xing1">>,  gui3 |-> <<"pian1", "yin4">> ] ]

\* the label of the fallback, zhong1 xing4
Neutral == <<"zhong1", "xing4">>

\* (tenGodsMap[bazi.dayStem] || tenGodsMap[ding1])[dayStem] ?? Neutral: a missing
\* row replaced by a default row, as getHourPillar does
relationOfDefaultRow(bazi, dayStem) ==
    LET row == IF bazi.dayStem \in DOMAIN tenGodsMap THEN tenGodsMap[bazi.dayStem]
               ELSE tenGodsMap["ding1"]
    IN  IF dayStem \in DOMAIN row THEN row[dayStem] ELSE Neutral

\* tenGodsMap[bazi.dayStem]?.[dayStem] ?? Neutral
relationOf(bazi, dayStem) ==
    IF bazi.dayStem \in DOMAIN tenGodsMap /\ dayStem \in DOMAIN tenGodsMap[bazi.dayStem]
    THEN tenGodsMap[bazi.dayStem][dayStem]
    ELSE Neutral

\* the advice string of line 134, the relation between a fixed prefix and a
\* fixed suffix, without its punctuation
adviceOf(relation) ==
    <<"jin1", "ri4">> \o relation \o <<"yi2", "wen3", "bu4", "tui1", "jin4", "ji4", "hua4">>

\* the first test without its third disjunct, relation.includes(cai2)
analyzeFortuneNoWealth(bazi, dayStem) ==
    LET relation == relationOf(bazi, dayStem)
        rating1  == IF StrIncludes(relation, "yin4") \/ StrIncludes(relation, "shi2")
                    THEN "ji2" ELSE "zhong1ping2"
        rating   == IF StrIncludes(relation, "shang1") \/ StrIncludes(relation, "sha1")
                    THEN "xiong1" ELSE rating1
    IN  [relation |-> relation, rating |-> rating, advice |-> adviceOf(relation)]

\* the ratings are tokens: "ji2" favorable, "zhong1ping2" neutral, "xiong1"
\* unfavorable
analyzeFortune(bazi, dayStem) ==
    LET relation == relationOf(bazi, dayStem)
        rating0  == "zhong1ping2"
        rating1  == IF StrIncludes(relation, "yin4") \/ StrIncludes(relation, "shi2")
                         \/ StrIncludes(relation, "cai2")
                    THEN "ji2" ELSE rating0
        rating   == IF StrIncludes(relation, "shang1") \/ StrIncludes(relation, "sha1")
                    THEN "xiong1" ELSE rating1
    IN  [relation |-> relation, rating |-> rating, advice |-> adviceOf(relation)]

-----------------------------------------------------------------------------
(* bestDays and its scoring, lines 29-43 and 398-408 *)

eventTypes == <<"qianyue", "kaiye", "banjia", "mianshi">>

favorByEvent ==
    [ qianyue |-> [gods |-> <<"yin4", "cai2">>, branches |-> <<"zi3", "hai4", "mao3">>],
      kaiye   |-> [gods |-> <<"shi2", "cai2">>, branches |-> <<"yin2", "wu3", "chen2">>],
      banjia  |-> [gods |-> <<"yin4">>,         branches |-> <<"chou3", "wei4", "hai4">>],
      mianshi |-> [gods |-> <<"yin4", "shi2">>, branches |-> <<"zi3", "shen1", "you3">>] ]

scoreByRating(r) == IF r = "ji2" THEN 2 ELSE IF r = "zhong1ping2" THEN 1 ELSE 0

\* "if (...) add+=2; else if (...) add+=1"
scoreByEventElse(relation, gzDay) ==
    LET fav == favorByEvent[eventType]
        br  == CharAt(gzDay, 1)
    IN  IF \E j \in 1..Len(fav.gods) : StrIncludes(relation, fav.gods[j]) THEN 2
        ELSE IF ArrIncludes(fav.branches, br) THEN 1 ELSE 0

scoreByEvent(relation, gzDay) ==
    LET fav  == favorByEvent[eventType]
        br   == CharAt(gzDay, 1)
        add0 == 0
        add1 == IF \E j \in 1..Len(fav.gods) : StrIncludes(relation, fav.gods[j])
                THEN add0 + 2 ELSE add0
        add2 == IF ArrIncludes(fav.branches, br) THEN add1 + 1 ELSE add1
    IN  add2

\* The day pillar of day n, counted from a jia3-zi3 day: what
\* solarLunar.solar2lunar(...).gzDay is for consecutive dates.
Sexagenary(n) == <<Stems[(n % 10) + 1], hourBranches[(n % 12) + 1]>>

\* getCalendarData(d), as far as bestDays reads it; a date is its day number,
\* which orders as the 'YYYY-MM-DD' string does
getCalendarData(d) == [solarDate |-> d, gzDay |-> Sexagenary(d % 60)]

\* "for(let i=0;i<30;i++)"
WindowDays == 30

\* what one pass of the loop body pushes
dayEntry(i) ==
    LET d       == today + i
        c       == getCalendarData(d)
        dayStem == CharAt(c.gzDay, 0)
        f       == analyzeFortune([dayStem |-> derivedDayStem], dayStem)
        base    == scoreByRating(f.rating)
        extra   == scoreByEvent(f.relation, c.gzDay)
    IN  [date |-> c.solarDate, gzDay |-> c.gzDay, rating |-> f.rating, score |-> base + extra]

\* The entries of list with score s, then those with score s - 1, ... down
\* to score lo, each group in the order of list.
RECURSIVE byScoreFrom(_, _, _)
byScoreFrom(list, s, lo) ==
    IF s < lo THEN <<>>
    ELSE LET hasScore(e) == e.score = s
         IN  SelectSeq(list, hasScore) \o byScoreFrom(list, s - 1, lo)

MaxOf(S) == CHOOSE x \in S : \A y \in S : y <= x
MinOf(S) == CHOOSE x \in S : \A y \in S : x <= y
Reverse(list) == [k \in 1..Len(list) |-> list[Len(list) + 1 - k]]

\* a sort by descending score that leaves equal scores in reverse order
sortByScoreTiesReversed(list) ==
    IF list = <<>> THEN <<>>
    ELSE LET scores == {list[k].score : k \in 1..Len(list)}
         IN  byScoreFrom(Reverse(list), MaxOf(scores), MinOf(scores))

\* res.sort((a,b)=>b.score-a.score): Array.prototype.sort is stable, so the
\* result is the entries by descending score, equal scores in their old order
sortByScore(list) ==
    IF list = <<>> THEN <<>>
    ELSE LET scores == {list[k].score : k \in 1..Len(list)}
         IN  byScoreFrom(list, MaxOf(scores), MinOf(scores))

\* Array.prototype.slice(from, to), 0 <= from <= to
slice(a, from, to) == SubSeq(a, from + 1, IF to <= Len(a) THEN to ELSE Len(a))

NoDays == [top3 |-> <<>>, backup5 |-> <<>>]

-----------------------------------------------------------------------------
(* computeShenSha, lines 206-284 *)

\* table[key] for a table of strings: a missing key reads as undefined, which
\* like '' is falsy and is no element of branches; both are ""
StrAt(table, key) == IF key \in DOMAIN table THEN table[key] ELSE ""

\* (table[key] || []) for a table of arrays
ArrAt(table, key) == IF key \in DOMAIN table THEN table[key] ELSE <<>>

\* [...].filter(Boolean) on strings
filterBoolean(a) == LET nonEmpty(x) == x # "" IN SelectSeq(a, nonEmpty)

\* the table with the row of ding1 holding the branches of the row of jia3
tianyiguirenDingAsJia ==
    [ jia3  |-> <<"chou3", "wei4">>, wu4  |-> <<"chou3", "wei4">>, geng1 |-> <<"chou3", "wei4">>,
      yi3   |-> <<"zi3", "shen1">>,  ji3  |-> <<"zi3", "shen1">>,
      bing3 |-> <<"hai4", "you3">>,  ding1 |-> <<"chou3", "wei4">>, xin1 |-> <<"hai4", "you3">>,
      ren2  |-> <<"mao3", "si4">>,   gui3 |-> <<"mao3", "si4">> ]

tianyiguiren ==
    [ jia3  |-> <<"chou3", "wei4">>, wu4  |-> <<"chou3", "wei4">>, geng1 |-> <<"chou3", "wei4">>,
      yi3   |-> <<"zi3", "shen1">>,  ji3  |-> <<"zi3", "shen1">>,
      bing3 |-> <<"hai4", "you3">>,  ding1 |-> <<"hai4", "you3">>, xin1 |-> <<"hai4", "you3">>,
      ren2  |-> <<"mao3", "si4">>,   gui3 |-> <<"mao3", "si4">> ]

ShenZiChen == <<"shen1", "zi3", "chen2">>
YinWuXu == <<"yin2", "wu3", "xu1">>
HaiMaoWei == <<"hai4", "mao3", "wei4">>
SiYouChou == <<"si4", "you3", "chou3">>

groupOf(br) ==
    IF StrIncludes(ShenZiChen, br) THEN ShenZiChen
    ELSE IF StrIncludes(YinWuXu, br) THEN YinWuXu
    ELSE IF StrIncludes(HaiMaoWei, br) THEN HaiMaoWei
    ELSE IF StrIncludes(SiYouChou, br) THEN SiYouChou
    ELSE <<>>

peachByGroup == (ShenZiChen :> "you3") @@ (YinWuXu :> "mao3") @@ (HaiMaoWei :> "zi3") @@ (SiYouChou :> "wu3")
yimaByGroup == (ShenZiChen :> "yin2") @@ (YinWuXu :> "shen1") @@ (HaiMaoWei :> "si4") @@ (SiYouChou :> "hai4")
huagaiByGroup == (ShenZiChen :> "chen2") @@ (YinWuXu :> "xu1") @@ (HaiMaoWei :> "wei4") @@ (SiYouChou :> "chou3")
luByStem ==
    [ jia3 |-> "yin2", yi3 |-> "mao3", bing3 |-> "si4", ding1 |-> "wu3", wu4 |-> "si4",
      ji3 |-> "wu3", geng1 |-> "shen1", xin1 |-> "you3", ren2 |-> "hai4", gui3 |-> "zi3" ]
renByStem ==
    [ jia3 |-> "mao3", yi3 |-> "chen2", bing3 |-> "wu3", ding1 |-> "wei4", wu4 |-> "wu3",
      ji3 |-> "wei4", geng1 |-> "you3", xin1 |-> "xu1", ren2 |-> "zi3", gui3 |-> "chou3" ]
wenchangByYearStem ==
    [ jia3 |-> "si4", yi3 |-> "wu3", bing3 |-> "shen1", ding1 |-> "you3", wu4 |-> "shen1",
      ji3 |-> "you3", geng1 |-> "hai4", xin1 |-> "zi3", ren2 |-> "yin2", gui3 |-> "mao3" ]
jiangxingByMonthGroup == (YinWuXu :> "wu3") @@ (ShenZiChen :> "zi3") @@ (HaiMaoWei :> "mao3") @@ (SiYouChou :> "you3")
hongyanByStem ==
    [ jia3 |-> <<"wu3">>, wu4 |-> <<"wu3">>, geng1 |-> <<"wu3">>,
      yi3 |-> <<"zi3">>, ji3 |-> <<"zi3">>, xin1 |-> <<"zi3">>,
      bing3 |-> <<"you3">>, ding1 |-> <<"you3">>,
      ren2 |-> <<"mao3">>, gui3 |-> <<"mao3">> ]

\* lines 207-211: the characters of the four pillars and the branches present
charsOf(gzYear, gzMonth, gzDay, gzHour) ==
    LET yBr == CharAt(gzYear, 1)
        mBr == CharAt(gzMonth, 1)
        dBr == CharAt(gzDay, 1)
        hBr == CharAt(gzHour, 1)
    IN  [yStem |-> CharAt(gzYear, 0), yBr |-> yBr, mStem |-> CharAt(gzMonth, 0), mBr |-> mBr,
         dStem |-> CharAt(gzDay, 0), dBr |-> dBr, hStem |-> CharAt(gzHour, 0), hBr |-> hBr,
         branches |-> filterBoolean(<<yBr, mBr, dBr, hBr>>)]

\* array.some(b => branches.includes(b))
someIn(array, branches) == \E j \in 1..Len(array) : ArrIncludes(branches, array[j])

\* The nine marker rules, each the statement that pushes its label onto r.
\* The labels are tokens: they are only pushed and compared as a whole.
ruleTianyi(r, c) ==
    IF someIn(ArrAt(tianyiguiren, c.dStem), c.branches) THEN Append(r, "tianyiguiren") ELSE r

rulePeach(r, c) ==
    LET baseBr  == IF c.dBr # "" THEN c.dBr ELSE c.yBr
        peachBr == StrAt(peachByGroup, groupOf(baseBr))
    IN  IF peachBr # "" /\ ArrIncludes(c.branches, peachBr) THEN Append(r, "taohua") ELSE r

ruleYima(r, c) ==
    LET baseBr == IF c.dBr # "" THEN c.dBr ELSE c.yBr
        yimaBr == StrAt(yimaByGroup, groupOf(baseBr))
    IN  IF yimaBr # "" /\ ArrIncludes(c.branches, yimaBr) THEN Append(r, "yima") ELSE r

ruleHuagai(r, c) ==
    LET baseBr == IF c.dBr # "" THEN c.dBr ELSE c.yBr
        hg     == StrAt(huagaiByGroup, groupOf(baseBr))
    IN  IF hg # "" /\ ArrIncludes(c.branches, hg) THEN Append(r, "huagai") ELSE r

ruleLu(r, c) ==
    IF ArrIncludes(c.branches, StrAt(luByStem, c.dStem)) THEN Append(r, "lushen") ELSE r

\* "else if (branches.includes(renByStem[dStem]))" after the lushen test
ruleRenElse(r, c) ==
    IF ArrIncludes(r, "lushen") THEN r
    ELSE IF ArrIncludes(c.branches, StrAt(renByStem, c.dStem)) THEN Append(r, "yangren") ELSE r

ruleRen(r, c) ==
    IF ArrIncludes(c.branches, StrAt(renByStem, c.dStem)) THEN Append(r, "yangren") ELSE r

ruleWenchang(r, c) ==
    LET wc == StrAt(wenchangByYearStem, c.yStem)
    IN  IF wc # "" /\ ArrIncludes(c.branches, wc) THEN Append(r, "wenchang") ELSE r

ruleJiangxing(r, c) ==
    LET jx == StrAt(jiangxingByMonthGroup, groupOf(c.mBr))
    IN  IF jx # "" /\ ArrIncludes(c.branches, jx) THEN Append(r, "jiangxing") ELSE r

ruleHongyan(r, c) ==
    IF someIn(ArrAt(hongyanByStem, c.dStem), c.branches) THEN Append(r, "hongyan") ELSE r

\* the rules by their position in the function body
applyRule(n, r, c) ==
    CASE n = 1 -> ruleTianyi(r, c)
      [] n = 2 -> rulePeach(r, c)
      [] n = 3 -> ruleYima(r, c)
      [] n = 4 -> ruleHuagai(r, c)
      [] n = 5 -> ruleLu(r, c)
      [] n = 6 -> ruleRen(r, c)
      [] n = 7 -> ruleWenchang(r, c)
      [] n = 8 -> ruleJiangxing(r, c)
      [] n = 9 -> ruleHongyan(r, c)

\* res after the rules order[k], order[k+1], ... have run on r
RECURSIVE applyRules(_, _, _, _)
applyRules(order, k, r, c) ==
    IF k > Len(order) THEN r
    ELSE applyRules(order, k + 1, applyRule(order[k], r, c), c)

\* Array.from(new Set(res)): the first occurrence of every element, in order
RECURSIVE ArrayFromSet(_)
ArrayFromSet(r) ==
    IF r = <<>> THEN <<>>
    ELSE LET front == ArrayFromSet(SubSeq(r, 1, Len(r) - 1))
             last  == r[Len(r)]
         IN  IF ArrIncludes(front, last) THEN front ELSE Append(front, last)

\* computeShenSha with its nine rules run in the given order
shenShaInOrder(order, gzYear, gzMonth, gzDay, gzHour) ==
    ArrayFromSet(applyRules(order, 1, <<>>, charsOf(gzYear, gzMonth, gzDay, gzHour)))

SourceOrder == <<1, 2, 3, 4, 5, 6, 7, 8, 9>>

computeShenSha(gzYear, gzMonth, gzDay, gzHour) ==
    shenShaInOrder(SourceOrder, gzYear, gzMonth, gzDay, gzHour)

-----------------------------------------------------------------------------
(* computeFiveFromBazi, lines 110-121 *)

\* The weight arguments are drawn from these pairs, in tenths: the defaults
\* 0.6/0.4, equal weights, one weight zero, both zero.  k/10 correctly
\* rounded is the double that the literal denotes.
WeightPairs == {<<6, 4>>, <<5, 5>>, <<10, 0>>, <<0, 10>>, <<0, 0>>}
Tenths(k) == FDiv(FromInt(k), FromInt(10))
DefaultStemWeight == Tenths(6)
DefaultBranchWeight == Tenths(4)

\* [gzYear, gzMonth, gzDay, gzHour]: at most four pillars pass filter(Boolean)
NumPillars == 4

\* The characters a pillar is made of: a stem or branch, or one in no table.
StemChars == StemSet \cup {"?"}
BranchChars == BranchSet \cup {"?"}

\* How many of the pillars may hold a character that is in no table.
MaxUnknown == 1

\* "const si = stemElem[s]; if (si!=null) acc[si] += stemWeight"
AddStem(a, s) ==
    LET si == stemElem(s)
    IN  IF si # Undefined THEN [a EXCEPT ![si] = FAdd(@, stemWeight)] ELSE a

\* "const bi = branchElem[b]; if (bi!=null) acc[bi] += branchWeight"
AddBranch(a, b) ==
    LET bi == branchElem(b)
    IN  IF bi # Undefined THEN [a EXCEPT ![bi] = FAdd(@, branchWeight)] ELSE a

\* computeFiveFromBazi as a function of its four pillars and two weights:
\* the loop of lines 114-119 over the pillars that pass filter(Boolean)
RECURSIVE accumulate(_, _, _, _)
accumulate(pillars, a, sw, bw) ==
    IF pillars = <<>> THEN a
    ELSE LET si == stemElem(CharAt(Head(pillars), 0))
             bi == branchElem(CharAt(Head(pillars), 1))
             a1 == IF si # Undefined THEN [a EXCEPT ![si] = FAdd(@, sw)] ELSE a
             a2 == IF bi # Undefined THEN [a1 EXCEPT ![bi] = FAdd(@, bw)] ELSE a1
         IN  accumulate(Tail(pillars), a2, sw, bw)

computeFiveFromBazi(gzYear, gzMonth, gzDay, gzHour) ==
    LET nonEmpty(p) == p # <<>>
    IN  normalizePercents(accumulate(SelectSeq(<<gzYear, gzMonth, gzDay, gzHour>>, nonEmpty),
                                     [i \in ElemIdxs |-> FZero], DefaultStemWeight, DefaultBranchWeight))

-----------------------------------------------------------------------------
(* toTrueSolar, lines 46-57 *)

\* A dayjs moment in a zone is [date, ms, utcOffset]: the day number of its
\* civil date in the zone, counted within the year so that dayOfYear() is
\* the date; the milliseconds since midnight in the zone; and utcOffset(),
\* the minutes the zone is east of UTC.  The zones have no daylight saving.
MsPerMinute == 60000
MsPerDay == 86400000

\* dayjs.tz(`${birthDate}T${birthTime}`, tz), birthTime in minutes after midnight
dayjsTz(birthDate, birthTime, tz) ==
    [date |-> birthDate, ms |-> birthTime * MsPerMinute, utcOffset |-> tz]

\* m.add(offset, 'minute'), the offset in milliseconds: the instant moves,
\* the zone stays
addMs(m, k) ==
    [date |-> m.date + ((m.ms + k) \div MsPerDay), ms |-> (m.ms + k) % MsPerDay,
     utcOffset |-> m.utcOffset]

\* equationOfTimeMinutes(n) in milliseconds, rounded down as the Date does
\* after add: 9.87 sin(2B) - 7.53 cos(B) - 1.5 sin(B) with B = 2 pi (n - 81) / 364,
\* evaluated in IEEE doubles, is -7.843661541300533, -7.53 and
\* -7.2140948807546605 minutes on the days 80, 81 and 82
equationOfTimeMs(n) ==
    CASE n = 80 -> 0 - 470620
      [] n = 81 -> 0 - 451800
      [] n = 82 -> 0 - 432846

\* longitude in degrees
toTrueSolar(birthDate, birthTime, tz, longitude) ==
    LET m             == dayjsTz(birthDate, birthTime, tz)
        N             == m.date
        tzOffsetHours == (0 - m.utcOffset) \div 60
        eot           == equationOfTimeMs(N)
        offset        == eot + 4 * MsPerMinute * (longitude - 15 * tzOffsetHours)
    IN  addMs(m, offset)

-----------------------------------------------------------------------------
(* The pillar derivations, lines 189-204 and 311-350 *)

\* A profile (and the form, a copy of one) is a record of the fields the
\* derivations read.  An optional field is << >> when it is absent or empty
\* and <<v>> when it holds v: birthDate a day number, birthTime in minutes
\* after midnight, tz as the zone's utcOffset, longitude in degrees.
\* dayStem is "" when none is stored.

\* Intl...timeZone || 'Asia/Shanghai': the zone of the browser, here UTC+8
localTZ == 480

\* the moment without the correction, whatever the flag
momentUncorrected(p, tz) == dayjsTz(p.birthDate[1], p.birthTime[1], tz)

\* "useTrueSolar && longitude != null ? toTrueSolar(iso, tz, longitude) : dayjs.tz(iso, tz)"
momentOf(p, tz) ==
    IF p.useTrueSolar /\ p.longitude # <<>>
    THEN toTrueSolar(p.birthDate[1], p.birthTime[1], tz, p.longitude[1])
    ELSE dayjsTz(p.birthDate[1], p.birthTime[1], tz)

\* what a derivation on p leaves in solarMoment: the value toTrueSolar
\* returned when the derivation called it.  early tells that the
\* derivation returned at its guard; tz is <<the zone>>.
afterMoment(p, early, tz) ==
    IF ~early /\ p.useTrueSolar /\ p.longitude # <<>>
    THEN <<toTrueSolar(p.birthDate[1], p.birthTime[1], tz[1], p.longitude[1])>>
    ELSE solarMoment

\* solarLunar.solar2lunar(m.year(), m.month()+1, m.date()), as far as the
\* derivations read it.  The dates lie between two solar terms of one year,
\* so the year and month pillars are the same on all of them; the day pillar
\* is the one getCalendarData gives for the date.
solar2lunar(m) ==
    [gzYear |-> <<"jia3", "chen2">>, gzMonth |-> <<"ding1", "mao3">>,
     gzDay |-> getCalendarData(m.date).gzDay]

\* m.hour()
hourOf(m) == m.ms \div (60 * MsPerMinute)

\* "!p.birthDate || !p.birthTime || !p.tz"
incomplete(p) == p.birthDate = <<>> \/ p.birthTime = <<>> \/ p.tz = <<>>

\* a || b on strings
OrElse(a, b) == IF a # "" THEN a ELSE b

\* the default stem jia3 in the place of ding1
derivedDayStemDefaultJia(p) ==
    IF incomplete(p) THEN OrElse(p.dayStem, "jia3")
    ELSE OrElse(CharAt(solar2lunar(momentOf(p, p.tz[1])).gzDay, 0), OrElse(p.dayStem, "jia3"))

\* line 311
derivedDayStemOf(p) ==
    IF incomplete(p) THEN OrElse(p.dayStem, "ding1")
    ELSE OrElse(CharAt(solar2lunar(momentOf(p, p.tz[1])).gzDay, 0), OrElse(p.dayStem, "ding1"))

\* line 312; '' is << >>
derivedHourPillarOf(p) ==
    IF incomplete(p) THEN <<>>
    ELSE LET m       == momentOf(p, p.tz[1])
             l       == solar2lunar(m)
             dayStem == OrElse(CharAt(l.gzDay, 0), OrElse(p.dayStem, "ding1"))
         IN  getHourPillar(dayStem, hourOf(m))

\* lines 314-328
activeBaziOf(p) ==
    IF incomplete(p) THEN <<>>
    ELSE LET m      == momentOf(p, p.tz[1])
             l      == solar2lunar(m)
             gzHour == getHourPillar(CharAt(IF l.gzDay # <<>> THEN l.gzDay ELSE <<"ding1">>, 0),
                                     hourOf(m))
         IN  <<[gzYear |-> l.gzYear, gzMonth |-> l.gzMonth, gzDay |-> l.gzDay, gzHour |-> gzHour]>>

\* "form.value.tz || localTZ"
formTz(f) == IF f.tz # <<>> THEN f.tz[1] ELSE localTZ

\* lines 189-204
formPreviewOf(f) ==
    IF f.birthDate = <<>> \/ f.birthTime = <<>> THEN <<>>
    ELSE LET m      == momentOf(f, formTz(f))
             l      == solar2lunar(m)
             dStem  == OrElse(CharAt(l.gzDay, 0), "ding1")
             gzHour == getHourPillar(dStem, hourOf(m))
         IN  <<[gzYear |-> l.gzYear, gzMonth |-> l.gzMonth, gzDay |-> l.gzDay,
                hourPillar |-> gzHour, dStem |-> dStem,
                energy |-> computeFiveFromBazi(l.gzYear, l.gzMonth, l.gzDay, gzHour),
                shensha |-> computeShenSha(l.gzYear, l.gzMonth, l.gzDay, gzHour)]>>

\* line 340
fiveFromDayStem(stem) ==
    CASE stem = "ding1" -> (0 :> 15) @@ (1 :> 15) @@ (2 :> 15) @@ (3 :> 40) @@ (4 :> 15)
      [] stem = "jia3"  -> (0 :> 15) @@ (1 :> 40) @@ (2 :> 15) @@ (3 :> 15) @@ (4 :> 15)
      [] stem = "yi3"   -> (0 :> 15) @@ (1 :> 35) @@ (2 :> 15) @@ (3 :> 20) @@ (4 :> 15)
      [] OTHER          -> [i \in ElemIdxs |-> 20]

\* lines 343-349: the data of the chart
chartDataFrom(bazi, stem) ==
    IF bazi # <<>>
    THEN computeFiveFromBazi(bazi[1].gzYear, bazi[1].gzMonth, bazi[1].gzDay, bazi[1].gzHour)
    ELSE fiveFromDayStem(stem)

-----------------------------------------------------------------------------
(* The parts of the program at rest: each specification below runs one part *)
(* and leaves the others as they are here.                                  *)

FiveIdle ==
    /\ stemWeight = FZero /\ branchWeight = FZero
    /\ acc = [i \in ElemIdxs |-> FZero]
    /\ nPillars = 0 /\ nUnknown = 0
    /\ fivePc = "idle"
    /\ five = [i \in ElemIdxs |-> 0]

HourIdle == hpDayStem = "" /\ hpHour = 0 /\ hourPillar = <<>>

NoFortune == [relation |-> <<>>, rating |-> "", advice |-> <<>>]

FortuneIdle == afBazi = [dayStem |-> ""] /\ afDayStem = "" /\ fortune = NoFortune /\ afPc = "idle"

RankIdle == derivedDayStem = "" /\ eventType = eventTypes[1] /\ today = 0 /\ res = <<>> /\ bestDays = NoDays

ShenShaIdle ==
    /\ ssYear = <<>> /\ ssMonth = <<>> /\ ssDay = <<>> /\ ssHour = <<>>
    /\ shensha = <<>> /\ ssPc = "idle"

\* a profile with no field filled in; it also stands for the undefined value
\* of activeProfile (line 149), which no profile of the list equals, as every
\* profile of the list has an id
NoProfile ==
    [id |-> "", name |-> "",
     birthDate |-> <<>>, birthTime |-> <<>>, tz |-> <<>>, longitude |-> <<>>,
     useTrueSolar |-> FALSE, dayStem |-> ""]

ProfilesIdle == profiles = <<>> /\ activeProfileId = "" /\ editing = FALSE

ExportIdle == exporting = FALSE /\ invocations = <<>>

DeriveIdle ==
    /\ activeProfile = NoProfile /\ form = NoProfile
    /\ derivedHourPillar = <<>> /\ activeBazi = <<>> /\ formPreview = <<>>
    /\ chartData = [i \in ElemIdxs |-> 0]
    /\ solarMoment = <<>> /\ evaluated = {}

-----------------------------------------------------------------------------
(* computeFiveFromBazi as a process: the loop over the pillars, then the return *)

InitFive ==
    /\ \E w \in WeightPairs : stemWeight = Tenths(w[1]) /\ branchWeight = Tenths(w[2])
    /\ acc = [i \in ElemIdxs |-> FZero]
    /\ nPillars = 0
    /\ nUnknown = 0
    /\ fivePc = "loop"
    /\ five = [i \in ElemIdxs |-> 0]
    /\ HourIdle /\ FortuneIdle /\ RankIdle /\ ShenShaIdle /\ DeriveIdle /\ ProfilesIdle /\ ExportIdle

\* one iteration of "for (const p of pillars)", p = s b
FiveLoop ==
    /\ fivePc = "loop"
    /\ nPillars < NumPillars
    /\ \E s \in StemChars :
         LET a1 == AddStem(acc, s)
         IN  \E b \in BranchChars :
               LET unknown == IF s \in StemSet /\ b \in BranchSet THEN 0 ELSE 1
               IN  /\ nUnknown + unknown <= MaxUnknown
                   /\ acc' = AddBranch(a1, b)
                   /\ nUnknown' = nUnknown + unknown
    /\ nPillars' = nPillars + 1
    /\ UNCHANGED <<stemWeight, branchWeight, fivePc, five>>
    /\ UNCHANGED <<hourVars, fortuneVars, rankVars, shenshaVars, deriveVars, profileVars, exportVars>>

\* "return normalizePercents(acc)"
FiveReturn ==
    /\ fivePc = "loop"
    /\ five' = normalizePercents(acc)
    /\ fivePc' = "done"
    /\ UNCHANGED <<stemWeight, branchWeight, acc, nPillars, nUnknown>>
    /\ UNCHANGED <<hourVars, fortuneVars, rankVars, shenshaVars, deriveVars, profileVars, exportVars>>

NextFive == FiveLoop \/ FiveReturn

SpecFive == InitFive /\ [][NextFive]_vars

-----------------------------------------------------------------------------
(* getHourPillar on every day stem (or a string that is none) and hour *)

\* The day-stem arguments: a stem, a character that is none, a branch, and
\* the empty string.
DayStemArgs == StemChars \cup {"zi3", ""}

InitHour ==
    /\ hpDayStem \in DayStemArgs
    /\ hpHour \in 0..23
    /\ hourPillar = <<>>
    /\ FiveIdle /\ FortuneIdle /\ RankIdle /\ ShenShaIdle /\ DeriveIdle /\ ProfilesIdle /\ ExportIdle

GetHourPillar ==
    /\ hourPillar = <<>>
    /\ hourPillar' = getHourPillar(hpDayStem, hpHour)
    /\ UNCHANGED <<hpDayStem, hpHour>>
    /\ UNCHANGED <<fiveVars, fortuneVars, rankVars, shenshaVars, deriveVars, profileVars, exportVars>>

NextHour == GetHourPillar

SpecHour == InitHour /\ [][NextHour]_vars

-----------------------------------------------------------------------------
(* analyzeFortune on every pair of a reference stem and a queried stem *)

InitFortune ==
    /\ afBazi \in [dayStem : StemChars]
    /\ afDayStem \in StemChars \cup {""}
    /\ fortune = NoFortune
    /\ afPc = "call"
    /\ FiveIdle /\ HourIdle /\ RankIdle /\ ShenShaIdle /\ DeriveIdle /\ ProfilesIdle /\ ExportIdle

AnalyzeFortune ==
    /\ afPc = "call"
    /\ fortune' = analyzeFortune(afBazi, afDayStem)
    /\ afPc' = "done"
    /\ UNCHANGED <<afBazi, afDayStem>>
    /\ UNCHANGED <<fiveVars, hourVars, rankVars, shenshaVars, deriveVars, profileVars, exportVars>>

NextFortune == AnalyzeFortune

SpecFortune == InitFortune /\ [][NextFortune]_vars

-----------------------------------------------------------------------------
(* bestDays: the computed value is evaluated when it is read and has no     *)
(* value, and a new event type discards the value.                          *)

InitRank ==
    /\ derivedDayStem \in StemChars
    /\ eventType = eventTypes[1]
    /\ today \in 0..59
    /\ res = <<>>
    /\ bestDays = NoDays
    /\ FiveIdle /\ HourIdle /\ FortuneIdle /\ ShenShaIdle /\ DeriveIdle /\ ProfilesIdle /\ ExportIdle

\* the getter of line 408: the loop, the sort in place, the two slices
EvalBestDays ==
    /\ res = <<>>
    /\ LET pushed == [k \in 1..WindowDays |-> dayEntry(k - 1)]
           sorted == sortByScore(pushed)
       IN  /\ res' = sorted
           /\ bestDays' = [top3 |-> slice(sorted, 0, 3), backup5 |-> slice(sorted, 3, 8)]
    /\ UNCHANGED <<derivedDayStem, eventType, today>>
    /\ UNCHANGED <<fiveVars, hourVars, fortuneVars, shenshaVars, deriveVars, profileVars, exportVars>>

\* the user picks another event type
SelectEvent ==
    /\ \E e \in {eventTypes[k] : k \in 1..Len(eventTypes)} :
         /\ e # eventType
         /\ eventType' = e
    /\ res' = <<>>
    /\ bestDays' = NoDays
    /\ UNCHANGED <<derivedDayStem, today>>
    /\ UNCHANGED <<fiveVars, hourVars, fortuneVars, shenshaVars, deriveVars, profileVars, exportVars>>

NextRank == EvalBestDays \/ SelectEvent

SpecRank == InitRank /\ [][NextRank]_vars

-----------------------------------------------------------------------------
(* computeShenSha on the pillars formPreview passes: year, month and day    *)
(* pillars of the sexagenary cycle (or none), and the hour pillar that      *)
(* getHourPillar derives from the day stem.                                 *)

\* The sixty pillars of the cycle, for the day.  The month pillar is drawn
\* from the first twelve, which hold every branch: the function does not read
\* the month stem.  The year pillar is one of NumYears consecutive years,
\* which hold every stem and every branch at least twice.
Pillars == {Sexagenary(k) : k \in 0..59}
MonthPillars == {Sexagenary(k) : k \in 0..11}
NumYears == 24
YearPillars == {Sexagenary(k) : k \in 0..(NumYears - 1)}

\* lines 199-200: dStem = (gzDay||'').charAt(0) || ding1, then getHourPillar(dStem, m.hour())
hourPillarsOf(gzDay) ==
    LET dStem == IF CharAt(gzDay, 0) # "" THEN CharAt(gzDay, 0) ELSE "ding1"
    IN  {getHourPillar(dStem, h) : h \in 0..23}

InitShenSha ==
    /\ ssYear \in YearPillars \cup {<<>>}
    /\ ssMonth \in MonthPillars \cup {<<>>}
    /\ ssDay \in Pillars \cup {<<>>}
    /\ ssHour \in hourPillarsOf(ssDay)
    /\ shensha = <<>>
    /\ ssPc = "call"
    /\ FiveIdle /\ HourIdle /\ FortuneIdle /\ RankIdle /\ DeriveIdle /\ ProfilesIdle /\ ExportIdle

ComputeShenSha ==
    /\ ssPc = "call"
    /\ shensha' = computeShenSha(ssYear, ssMonth, ssDay, ssHour)
    /\ ssPc' = "done"
    /\ UNCHANGED <<ssYear, ssMonth, ssDay, ssHour>>
    /\ UNCHANGED <<fiveVars, hourVars, fortuneVars, rankVars, deriveVars, profileVars, exportVars>>

NextShenSha == ComputeShenSha

SpecShenSha == InitShenSha /\ [][NextShenSha]_vars

-----------------------------------------------------------------------------
(* The pillar derivations on a stored profile and on the form that edits    *)
(* it.  A computed value is evaluated when it is first read; the relation   *)
(* analysis and the chart read the values they depend on.                   *)

Optional(S) == {<<>>} \cup {<<v>> : v \in S}

\* birth dates on the days 80 and 81 of the year; birth times 00:05, 08:30
\* and 23:20; the zones UTC and UTC+8; longitudes on the meridians of the
\* two zones, and one outside [-180, 180]; no day stem stored, or geng1
ProfileSet ==
    [id : {"u1"}, name : {"A"},
     birthDate : Optional({80, 81}), birthTime : Optional({5, 510, 1400}),
     tz : Optional({0, 480}), longitude : Optional({0, 120, 200}),
     useTrueSolar : BOOLEAN, dayStem : {"", "geng1"}]

\* startEdit (line 285) has copied the active profile into the form
InitDerive ==
    /\ activeProfile \in ProfileSet
    /\ form = activeProfile
    /\ derivedHourPillar = <<>> /\ activeBazi = <<>> /\ formPreview = <<>>
    /\ chartData = [i \in ElemIdxs |-> 0]
    /\ solarMoment = <<>> /\ evaluated = {}
    /\ FiveIdle /\ HourIdle /\ FortuneIdle /\ RankIdle /\ ShenShaIdle /\ ProfilesIdle /\ ExportIdle

DerivedDayStem ==
    /\ "derivedDayStem" \notin evaluated
    /\ derivedDayStem' = derivedDayStemOf(activeProfile)
    /\ solarMoment' = afterMoment(activeProfile, incomplete(activeProfile), activeProfile.tz)
    /\ evaluated' = evaluated \cup {"derivedDayStem"}
    /\ UNCHANGED <<activeProfile, form, derivedHourPillar, activeBazi, formPreview, chartData>>
    /\ UNCHANGED <<eventType, today, res, bestDays>>
    /\ UNCHANGED <<fiveVars, hourVars, fortuneVars, shenshaVars, profileVars, exportVars>>

DerivedHourPillar ==
    /\ "derivedHourPillar" \notin evaluated
    /\ derivedHourPillar' = derivedHourPillarOf(activeProfile)
    /\ solarMoment' = afterMoment(activeProfile, incomplete(activeProfile), activeProfile.tz)
    /\ evaluated' = evaluated \cup {"derivedHourPillar"}
    /\ UNCHANGED <<activeProfile, form, activeBazi, formPreview, chartData>>
    /\ UNCHANGED <<fiveVars, hourVars, fortuneVars, rankVars, shenshaVars, profileVars, exportVars>>

ActiveBazi ==
    /\ "activeBazi" \notin evaluated
    /\ activeBazi' = activeBaziOf(activeProfile)
    /\ solarMoment' = afterMoment(activeProfile, incomplete(activeProfile), activeProfile.tz)
    /\ evaluated' = evaluated \cup {"activeBazi"}
    /\ UNCHANGED <<activeProfile, form, derivedHourPillar, formPreview, chartData>>
    /\ UNCHANGED <<fiveVars, hourVars, fortuneVars, rankVars, shenshaVars, profileVars, exportVars>>

FormPreview ==
    /\ "formPreview" \notin evaluated
    /\ formPreview' = formPreviewOf(form)
    /\ solarMoment' = afterMoment(form, form.birthDate = <<>> \/ form.birthTime = <<>>, <<formTz(form)>>)
    /\ evaluated' = evaluated \cup {"formPreview"}
    /\ UNCHANGED <<activeProfile, form, derivedHourPillar, activeBazi, chartData>>
    /\ UNCHANGED <<fiveVars, hourVars, fortuneVars, rankVars, shenshaVars, profileVars, exportVars>>

\* line 333: fortune reads derivedDayStem.value and dayStemToday.value
Fortune ==
    /\ "fortune" \notin evaluated
    /\ derivedDayStem' = derivedDayStemOf(activeProfile)
    /\ afBazi' = [dayStem |-> derivedDayStem']
    /\ afDayStem' = CharAt(getCalendarData(today).gzDay, 0)
    /\ fortune' = analyzeFortune(afBazi', afDayStem')
    /\ afPc' = "done"
    /\ solarMoment' = afterMoment(activeProfile, incomplete(activeProfile), activeProfile.tz)
    /\ evaluated' = evaluated \cup {"derivedDayStem", "fortune"}
    /\ UNCHANGED <<activeProfile, form, derivedHourPillar, activeBazi, formPreview, chartData>>
    /\ UNCHANGED <<eventType, today, res, bestDays>>
    /\ UNCHANGED <<fiveVars, hourVars, shenshaVars, profileVars, exportVars>>

\* lines 341-350: renderFiveChart reads activeBazi.value and, when that is
\* null, derivedDayStem.value
RenderFiveChart ==
    /\ "renderFiveChart" \notin evaluated
    /\ activeBazi' = activeBaziOf(activeProfile)
    /\ chartData' = chartDataFrom(activeBazi', derivedDayStemOf(activeProfile))
    /\ IF activeBazi' = <<>>
       THEN /\ derivedDayStem' = derivedDayStemOf(activeProfile)
            /\ evaluated' = evaluated \cup {"activeBazi", "derivedDayStem", "renderFiveChart"}
       ELSE /\ derivedDayStem' = derivedDayStem
            /\ evaluated' = evaluated \cup {"activeBazi", "renderFiveChart"}
    /\ solarMoment' = afterMoment(activeProfile, incomplete(activeProfile), activeProfile.tz)
    /\ UNCHANGED <<activeProfile, form, derivedHourPillar, formPreview>>
    /\ UNCHANGED <<eventType, today, res, bestDays>>
    /\ UNCHANGED <<fiveVars, hourVars, fortuneVars, shenshaVars, profileVars, exportVars>>

NextDerive ==
    DerivedDayStem \/ DerivedHourPillar \/ ActiveBazi \/ FormPreview \/ Fortune \/ RenderFiveChart

SpecDerive == InitDerive /\ [][NextDerive]_vars

-----------------------------------------------------------------------------
(* The profile list, lines 142-154 and 285-308.  The dates are day numbers  *)
(* of the year, the times minutes of the day, the longitudes whole degrees. *)

\* line 142: user A, 1990-01-01 08:00, and user B, 1992-06-06 14:30
defaultProfiles ==
    << [id |-> "u1", name |-> "A", dayStem |-> "ding1",
        birthDate |-> <<1>>, birthTime |-> <<480>>, tz |-> <<localTZ>>,
        longitude |-> <<116>>, useTrueSolar |-> FALSE],
       [id |-> "u2", name |-> "B", dayStem |-> "jia3",
        birthDate |-> <<158>>, birthTime |-> <<870>>, tz |-> <<localTZ>>,
        longitude |-> <<121>>, useTrueSolar |-> TRUE] >>

\* lines 152 and 154: the form as declared, and as resetForm leaves it
emptyForm ==
    [id |-> "", name |-> "", dayStem |-> "ding1",
     birthDate |-> <<>>, birthTime |-> <<>>, tz |-> <<localTZ>>,
     longitude |-> <<116>>, useTrueSolar |-> FALSE]

\* line 294, Array.prototype.findIndex: the first index with that id, 0 for
\* the -1 of the code
findIndex(list, id) ==
    IF \E k \in 1..Len(list) : list[k].id = id
    THEN CHOOSE k \in 1..Len(list) :
             /\ list[k].id = id
             /\ \A j \in 1..(k - 1) : list[j].id # id
    ELSE 0

\* line 149: profiles.find(p => p.id === activeProfileId) || profiles[0]
activeProfileOf(list, id) ==
    IF findIndex(list, id) > 0 THEN list[findIndex(list, id)]
    ELSE IF Len(list) > 0 THEN list[1]
    ELSE NoProfile

\* line 287: the name with its white space and zero-width characters removed
stripName(name) == IF name = " " THEN "" ELSE name

\* the names typed into the form: none, a blank, and two names
FormNames == {"", " ", "C", "D"}

\* line 301: 'u' + Math.random().toString(36).slice(2, 8), any of them
NewIds == {"ua", "ub"}

\* the list grows no longer than this
MaxProfiles == 3

\* lines 146-148 with nothing stored: the default profiles, the first active
InitProfiles ==
    /\ profiles = defaultProfiles
    /\ activeProfileId = "u1"
    /\ editing = FALSE
    /\ form = emptyForm
    /\ activeProfile = activeProfileOf(defaultProfiles, "u1")
    /\ derivedHourPillar = <<>> /\ activeBazi = <<>> /\ formPreview = <<>>
    /\ chartData = [i \in ElemIdxs |-> 0]
    /\ solarMoment = <<>> /\ evaluated = {}
    /\ FiveIdle /\ HourIdle /\ FortuneIdle /\ RankIdle /\ ShenShaIdle /\ ExportIdle

profilesRest ==
    /\ UNCHANGED <<derivedHourPillar, activeBazi, formPreview, chartData, solarMoment, evaluated>>
    /\ UNCHANGED <<fiveVars, hourVars, fortuneVars, rankVars, shenshaVars, exportVars>>

\* line 764: <select v-model="activeProfileId"> over the profiles of the list
SelectProfile ==
    /\ \E k \in 1..Len(profiles) :
         /\ profiles[k].id # activeProfileId
         /\ activeProfileId' = profiles[k].id
    /\ activeProfile' = activeProfileOf(profiles, activeProfileId')
    /\ UNCHANGED <<profiles, editing, form>>
    /\ profilesRest

\* line 775: <input v-model="form.name">
InputName ==
    /\ \E n \in FormNames :
         /\ n # form.name
         /\ form' = [form EXCEPT !.name = n]
    /\ UNCHANGED <<profiles, activeProfileId, editing, activeProfile>>
    /\ profilesRest

\* line 285; with no active profile the spread of undefined copies nothing
startEdit ==
    /\ form' = activeProfile
    /\ editing' = TRUE
    /\ UNCHANGED <<profiles, activeProfileId, activeProfile>>
    /\ profilesRest

\* line 154
resetForm ==
    /\ form' = emptyForm
    /\ editing' = FALSE
    /\ UNCHANGED <<profiles, activeProfileId, activeProfile>>
    /\ profilesRest

\* lines 293-298: save the profile under edit
saveProfile(list, f) ==
    IF findIndex(list, f.id) > 0
    THEN [list EXCEPT ![findIndex(list, f.id)] = f]
    ELSE list

\* lines 286-307
submitForm ==
    /\ LET n == stripName(form.name)
           f == [form EXCEPT !.name = n]
       IN  IF n = ""
           THEN UNCHANGED <<profiles, activeProfileId, editing, form, activeProfile>>
           ELSE /\ IF editing /\ form.id # ""
                   THEN /\ profiles' = saveProfile(profiles, f)
                        /\ activeProfileId' = form.id
                   ELSE /\ Len(profiles) < MaxProfiles
                        /\ \E id \in NewIds :
                             /\ profiles' = Append(profiles, [f EXCEPT !.id = id])
                             /\ activeProfileId' = id
                /\ form' = emptyForm
                /\ editing' = FALSE
                /\ activeProfile' = activeProfileOf(profiles', activeProfileId')
    /\ profilesRest

\* line 308, Array.prototype.splice(idx, 1)
splice(list, idx) == [k \in 1..(Len(list) - 1) |-> IF k < idx THEN list[k] ELSE list[k + 1]]

\* line 308; confirmed is the answer to the confirm dialog
removeActive ==
    /\ \E confirmed \in BOOLEAN :
         LET idx == findIndex(profiles, activeProfile.id)
         IN  IF activeProfile = NoProfile \/ ~confirmed \/ idx = 0
             THEN UNCHANGED <<profiles, activeProfileId, activeProfile>>
             ELSE /\ profiles' = splice(profiles, idx)
                  /\ activeProfileId' =
                       IF Len(profiles') > 0 THEN profiles'[1].id ELSE activeProfileId
                  /\ activeProfile' = activeProfileOf(profiles', activeProfileId')
    /\ UNCHANGED <<editing, form>>
    /\ profilesRest

NextProfiles ==
    \/ SelectProfile
    \/ InputName
    \/ startEdit
    \/ resetForm
    \/ submitForm
    \/ removeActive

SpecProfiles == InitProfiles /\ [][NextProfiles]_vars

-----------------------------------------------------------------------------
(* The exports, lines 511-517, 601-647 and 649-729.  A step is one task of  *)
(* the event loop, with the microtasks it leaves behind: no other call runs *)
(* between the end of a body and the finally block of line 516, which is    *)
(* the continuation of the await of line 515.                               *)

\* the calls made, and the awaits a body passes, are no more than these
MaxCalls == 3
MaxAwaits == 2

\* how a call stands (pc): "skipped", returned at line 513; "body", its body
\* waiting at an await
\* (ensureChineseFont, addCoverPage, html2canvas); "saved", its body ended by
\* doc.save (lines 642, 697, 723); "alerted", its body ended by the alert of
\* its catch block (lines 643-645, 724-727)
BodyEnds == {"saved", "alerted"}

\* withExporting without the test of line 513
withExportingUnguarded(exp, calls, fn, reaches) ==
    [exporting |-> reaches = "body",
     invocations |-> Append(calls, [fn |-> fn, pc |-> reaches, awaits |-> 0])]

\* lines 512-517, up to the point where the task ends: reaches is how far
\* the body gets in it, to an await that waits or to its end, after which
\* line 516 has run in the same task
withExporting(exp, calls, fn, reaches) ==
    IF exp
    THEN [exporting |-> exp,
          invocations |-> Append(calls, [fn |-> fn, pc |-> "skipped", awaits |-> 0])]
    ELSE [exporting |-> reaches = "body",
          invocations |-> Append(calls, [fn |-> fn, pc |-> reaches, awaits |-> 0])]

InitExport ==
    /\ exporting = FALSE
    /\ invocations = <<>>
    /\ FiveIdle /\ HourIdle /\ FortuneIdle /\ RankIdle /\ ShenShaIdle /\ DeriveIdle /\ ProfilesIdle

exportRest ==
    UNCHANGED <<fiveVars, hourVars, fortuneVars, rankVars, shenshaVars, deriveVars, profileVars>>

\* lines 601-647
exportPdf ==
    /\ Len(invocations) < MaxCalls
    /\ \E reaches \in {"body"} \cup BodyEnds :
         LET after == withExporting(exporting, invocations, "exportPdf", reaches)
         IN  /\ exporting' = after.exporting
             /\ invocations' = after.invocations
    /\ exportRest

\* lines 649-729
exportPdfFull ==
    /\ Len(invocations) < MaxCalls
    /\ \E reaches \in {"body"} \cup BodyEnds :
         LET after == withExporting(exporting, invocations, "exportPdfFull", reaches)
         IN  /\ exporting' = after.exporting
             /\ invocations' = after.invocations
    /\ exportRest

\* an await of a body passes and the body reaches its next await
ResumeBody ==
    /\ \E c \in 1..Len(invocations) :
         /\ invocations[c].pc = "body"
         /\ invocations[c].awaits < MaxAwaits
         /\ invocations' = [invocations EXCEPT ![c].awaits = @ + 1]
    /\ UNCHANGED exporting
    /\ exportRest

\* a body ends, in its try block or in its catch block, and line 516 runs
FinishBody ==
    /\ \E c \in 1..Len(invocations), end \in BodyEnds :
         /\ invocations[c].pc = "body"
         /\ invocations' = [invocations EXCEPT ![c].pc = end]
    /\ exporting' = FALSE
    /\ exportRest

NextExport ==
    \/ exportPdf
    \/ exportPdfFull
    \/ ResumeBody
    \/ FinishBody

SpecExport == InitExport /\ [][NextExport]_vars

-----------------------------------------------------------------------------
(* The claims *)

DefaultWeights == stemWeight = DefaultStemWeight /\ branchWeight = DefaultBranchWeight

\* the sum of the rounded percentages, before the remainder is distributed
RoundedSum ==
    LET s0 == ReduceAdd(acc)
    IN  SumInts(roundAll(rawPercents(acc, IF FIsZero(s0) THEN FromInt(1) ELSE s0)))

\* C1: with the default weights 0.6/0.4 and three or four pillars, each a
\* stem and a branch of the tables (the hour pillar may be absent), the five
\* integers computeFiveFromBazi returns sum to exactly 100.
C1_SumIs100 ==
    (fivePc = "done" /\ DefaultWeights /\ nUnknown = 0 /\ nPillars \in {3, 4})
        => SumInts(five) = 100

\* three known pillars whose rounded percentages do not sum to 100
C1_Witness ==
    /\ fivePc = "done" /\ DefaultWeights /\ nUnknown = 0 /\ nPillars = 3
    /\ RoundedSum # 100
    /\ SumInts(five) = 100

\* C2: for every accumulator that up to four pillars and non-negative weights
\* produce, every entry normalizePercents returns is a non-negative integer;
\* the decrements made when the rounded values sum to more than 100 lower no
\* entry below 0.
C2_NonNegative == fivePc = "done" => \A i \in ElemIdxs : five[i] \in Nat

\* the rounded values sum to more than 100 and the loop has decremented
C2_Witness ==
    /\ fivePc = "done"
    /\ RoundedSum > 100
    /\ SumInts(five) = 100
    /\ \E i \in ElemIdxs : five[i] = 0

\* a is ranked before b: by descending score, equal scores by ascending date
RankedBefore(a, b) == a.score > b.score \/ (a.score = b.score /\ a.date < b.date)

\* C3: top3 followed by backup5 is exactly the first 3 and the next 5 entries
\* of the 30-day window ordered by descending score, equal scores in ascending
\* date order.  That order is total, so the two lists are determined by the
\* reference stem, the event type and the calendar: every evaluation from the
\* same three yields them again.
C3_TopAndBackup ==
    res # <<>> =>
        LET out  == bestDays.top3 \o bestDays.backup5
            days == {dayEntry(i) : i \in 0..(WindowDays - 1)}
        IN  /\ Len(bestDays.top3) = 3
            /\ Len(bestDays.backup5) = 5
            /\ \A k \in 1..8 : out[k] \in days
            /\ \A k \in 1..7 : RankedBefore(out[k], out[k + 1])
            /\ \A e \in days : (\E k \in 1..8 : out[k] = e) \/ RankedBefore(out[8], e)

\* an evaluation in which equal scores meet within the eight and across the
\* two lists, and the scores of the eight differ
C3_Witness ==
    /\ res # <<>>
    /\ bestDays.top3[1].score = bestDays.top3[2].score
    /\ bestDays.top3[3].score = bestDays.backup5[1].score
    /\ bestDays.top3[1].score > bestDays.backup5[5].score
    /\ \E k \in 9..WindowDays : res[k].score = bestDays.backup5[5].score

\* C4: for every candidate day, score = base + bonus, base 2 for ji2
\* (favorable), 1 for zhong1ping2 (neutral), 0 for xiong1 (unfavorable), and
\* bonus = (2 if the relation label contains one of the event's favored
\* keywords) + (1 if the day branch is one of the event's favored branches);
\* so the bonus is in 0..3 and the score in 0..5.
C4_Score ==
    \A k \in 1..Len(res) :
        LET e        == res[k]
            relation == relationOf([dayStem |-> derivedDayStem], CharAt(e.gzDay, 0))
            fav      == favorByEvent[eventType]
            base     == CASE e.rating = "ji2" -> 2
                          [] e.rating = "zhong1ping2" -> 1
                          [] e.rating = "xiong1" -> 0
            keyword  == IF \E j \in 1..Len(fav.gods) : \E c \in 1..Len(relation) : relation[c] = fav.gods[j]
                        THEN 2 ELSE 0
            branch   == IF \E j \in 1..Len(fav.branches) : fav.branches[j] = e.gzDay[2]
                        THEN 1 ELSE 0
        IN  /\ e.score = base + keyword + branch
            /\ keyword + branch \in 0..3
            /\ e.score \in 0..5

\* a window with a day of bonus 3 and score 5, and a day of score 0
C4_Witness ==
    /\ res # <<>>
    /\ \E k \in 1..Len(res) : res[k].score = 5 /\ res[k].rating = "ji2"
    /\ \E k \in 1..Len(res) : res[k].score = 0

\* C5: for every day stem and hour h in 0..23 the branch of getHourPillar is
\* the one with index floor(((h+1) mod 24)/2); hours 23 and 0 give slot 0
\* (zi3), and branch k is returned for exactly the hours 2k-1 and 2k (mod 24).
C5_HourBranch ==
    hourPillar # <<>> =>
        /\ CharAt(hourPillar, 1) = hourBranches[(((hpHour + 1) % 24) \div 2) + 1]
        /\ \A k \in 0..11 :
              CharAt(hourPillar, 1) = hourBranches[k + 1]
                  <=> hpHour \in {(2 * k + 23) % 24, 2 * k}

\* hour 23 gives the first branch
C5_Witness == hourPillar # <<>> /\ hpHour = 23 /\ CharAt(hourPillar, 1) = "zi3"

\* the stem after s in the ten-stem cycle
NextStem(s) == Stems[((CHOOSE i \in 1..10 : Stems[i] = s) % 10) + 1]

\* C6: for each of the 10 day stems the hour stem advances by exactly one
\* stem of the ten-stem cycle from each two-hour slot to the next, so slot 10
\* has the stem of slot 0 and slot 11 the stem of slot 1.
C6_OneStemPerSlot ==
    (hourPillar # <<>> /\ hpDayStem \in StemSet) =>
        LET idx      == ((hpHour + 1) % 24) \div 2
            stemAt(h) == CharAt(getHourPillar(hpDayStem, h % 24), 0)
        IN  /\ idx < 11 => stemAt(hpHour + 2) = NextStem(CharAt(hourPillar, 0))
            /\ idx >= 10 => stemAt(hpHour + 4) = CharAt(hourPillar, 0)

\* the branches present among the four pillars
BranchesPresent == {CharAt(p, 1) : p \in {ssYear, ssMonth, ssDay, ssHour}} \ {""}

\* C7, as claimed: with day stem ding1 and the branches chou3 and wei4 among
\* the four pillar branches, the result of computeShenSha includes the
\* Nobleman marker (tianyiguiren).
C7_DingChouWei ==
    (ssPc = "done" /\ CharAt(ssDay, 0) = "ding1" /\ {"chou3", "wei4"} \subseteq BranchesPresent)
        => ArrIncludes(shensha, "tianyiguiren")

\* C7, amended: with day stem ding1 and the branch hai4 or you3 among the
\* four pillar branches, the result of computeShenSha includes the Nobleman
\* marker (tianyiguiren).
C7_DingHaiYou ==
    (ssPc = "done" /\ CharAt(ssDay, 0) = "ding1" /\ {"hai4", "you3"} \cap BranchesPresent # {})
        => ArrIncludes(shensha, "tianyiguiren")

\* a ding1 day with you3 only in the year pillar, and the marker returned
C7_Witness ==
    /\ ssPc = "done" /\ CharAt(ssDay, 0) = "ding1"
    /\ CharAt(ssYear, 1) = "you3"
    /\ BranchesPresent \cap {"hai4", "you3"} = {"you3"}
    /\ ArrIncludes(shensha, "tianyiguiren")

\* the labels of the categories
SealLabels == {<<"yin4", "xing1">>, <<"pian1", "yin4">>}
OutputLabels == {<<"shi2", "shen2">>}
WealthLabels == {<<"pian1", "cai2">>, <<"zheng4", "cai2">>}
InjuryLabels == {<<"shang1", "guan1">>}
AttackLabels == {<<"guan1", "sha1">>, <<"qi1", "sha1">>}

\* C8: for every pair with a populated table entry, analyzeFortune rates the
\* day favorable (ji2) for a seal, output or wealth label, unfavorable
\* (xiong1) for an injury or authority-attack label, and neutral
\* (zhong1ping2) for every other label (bi3 jian1, jie2 cai2); reference
\* ding1 with query jia3 gives the seal label yin4 xing1, rated favorable.
C8_RatingByCategory ==
    (afPc = "done" /\ afBazi.dayStem \in DOMAIN tenGodsMap /\ afDayStem \in StemSet) =>
        /\ fortune.relation \in SealLabels \cup OutputLabels \cup WealthLabels
              => fortune.rating = "ji2"
        /\ fortune.relation \in InjuryLabels \cup AttackLabels
              => fortune.rating = "xiong1"
        /\ fortune.relation \notin SealLabels \cup OutputLabels \cup WealthLabels
                                     \cup InjuryLabels \cup AttackLabels
              => fortune.rating = "zhong1ping2"
        /\ (afBazi.dayStem = "ding1" /\ afDayStem = "jia3")
              => fortune.relation = <<"yin4", "xing1">> /\ fortune.rating = "ji2"

\* C9: for every reference stem without a row in the ten-god table (every
\* stem but ding1 and jia3, and a string that is no stem) and every query
\* stem, analyzeFortune returns the relation zhong1 xing4 with the rating
\* zhong1ping2, and the advice made from that relation.
C9_NoRowNeutral ==
    (afPc = "done" /\ afBazi.dayStem \notin {"ding1", "jia3"}) =>
        /\ fortune.relation = <<"zhong1", "xing4">>
        /\ fortune.rating = "zhong1ping2"
        /\ fortune.advice = adviceOf(<<"zhong1", "xing4">>)

\* a reference stem without a row, queried with a stem that the rows know
C9_Witness ==
    /\ afPc = "done" /\ afBazi.dayStem = "yi3" /\ afDayStem = "jia3"
    /\ fortune.rating = "zhong1ping2"

\* orders of the nine rules other than the order of the source: the reverse,
\* in which every two rules change places, and a rotation
RuleOrders == { <<9, 8, 7, 6, 5, 4, 3, 2, 1>>, <<6, 7, 8, 9, 1, 2, 3, 4, 5>> }

ToSet(seq) == {seq[k] : k \in 1..Len(seq)}

\* C10: computeShenSha returns a list without duplicate labels, and the set
\* of its labels is the set that the nine rules give on the same four pillars
\* when they run in another order.
C10_SetOfMarkers ==
    ssPc = "done" =>
        /\ \A i, j \in 1..Len(shensha) : i # j => shensha[i] # shensha[j]
        /\ \A order \in RuleOrders :
              ToSet(shenShaInOrder(order, ssYear, ssMonth, ssDay, ssHour)) = ToSet(shensha)

\* pillars on which the rules lushen and yangren both push, among others
C10_Witness ==
    /\ ssPc = "done"
    /\ ArrIncludes(shensha, "lushen") /\ ArrIncludes(shensha, "yangren")
    /\ Len(shensha) >= 4

\* C15: for every day-stem argument that is not one of the 10 stems (the
\* empty string, a branch, another character) and every hour in 0..23,
\* getHourPillar returns a pillar, and it is the pillar returned for the day
\* stem jia3: the stem of the first row of the table at the hour's slot, and
\* the slot's branch.
C15_UnknownStemAsJia ==
    (hourPillar # <<>> /\ hpDayStem \notin StemSet) =>
        LET idx == ((hpHour + 1) % 24) \div 2
        IN  /\ hourPillar = <<hourStemTable.jia3[idx + 1], hourBranches[idx + 1]>>
            /\ hourPillar = getHourPillar("jia3", hpHour)
            /\ CharAt(hourPillar, 0) \in StemSet /\ CharAt(hourPillar, 1) \in BranchSet

\* the empty day stem at an hour whose slot is not the first
C15_Witness ==
    /\ hourPillar # <<>> /\ hpDayStem = "" /\ hpHour = 7
    /\ hourPillar = <<"ren2", "chen2">>

\* an entry of the accumulator in fifths, under the default weights: every
\* stem counted adds 3 and every branch counted adds 2
Fifths(x) == FRound(FMulInt(x, 5))
TotalFifths == Fifths(acc[0]) + Fifths(acc[1]) + Fifths(acc[2]) + Fifths(acc[3]) + Fifths(acc[4])

\* C16: in computeFiveFromBazi a character that is in no element table is
\* counted for the first row of its table (jia3 = wood for a stem, zi3 =
\* water for a branch), so every pillar supplied adds both its stem weight
\* and its branch weight to the accumulator: with the default weights the
\* accumulator holds 0.6 + 0.4 for each pillar.
C16_EveryPillarCountsTwice == DefaultWeights => TotalFifths = 5 * nPillars

AccIsZero == \A i \in ElemIdxs : FIsZero(acc[i])

\* C18: when no pillar adds any weight (no pillar at all, or no character of
\* the pillars is in the element tables), the accumulator sums to 0, the raw
\* percentages are all 0 and so are the rounded ones, and the remainder loop
\* hands out the whole difference of 100 one unit at a time, cycling through
\* the five elements: computeFiveFromBazi returns [20, 20, 20, 20, 20].
C18_ZeroGivesTwenties ==
    (fivePc = "done" /\ AccIsZero) =>
        /\ FIsZero(ReduceAdd(acc))
        /\ \A k \in 1..5 : FIsZero(rawPercents(acc, FromInt(1))[k])
        /\ RoundedSum = 0
        /\ five = [i \in ElemIdxs |-> 20]

\* one pillar supplied under the default weights, neither character in a table
C18_Witness ==
    /\ fivePc = "done" /\ DefaultWeights /\ nPillars = 1 /\ nUnknown = 1
    /\ AccIsZero
    /\ five = [i \in ElemIdxs |-> 20]

\* the exact percentage of element i is 100 * Fifths(acc[i]) / TotalFifths:
\* its floor, and whether it is an integer
ExactFloor(i) == (100 * Fifths(acc[i])) \div TotalFifths
ExactIsInteger(i) == (100 * Fifths(acc[i])) % TotalFifths = 0

\* C19: for three or four pillars of known characters under the default
\* weights, each percentage computeFiveFromBazi returns is the floor or the
\* ceiling of the element's exact percentage acc[i] / sum(acc) * 100.
C19_FloorOrCeiling ==
    (fivePc = "done" /\ DefaultWeights /\ nUnknown = 0 /\ nPillars \in {3, 4}) =>
        \A i \in ElemIdxs :
            \/ five[i] = ExactFloor(i)
            \/ five[i] = ExactFloor(i) + 1 /\ ~ExactIsInteger(i)

\* the relation label of entry e contains a favored keyword of the event type
HasKeyword(e) ==
    LET relation == relationOf([dayStem |-> derivedDayStem], CharAt(e.gzDay, 0))
        fav      == favorByEvent[eventType]
    IN  \E j \in 1..Len(fav.gods) : \E c \in 1..Len(relation) : relation[c] = fav.gods[j]

\* C20: for every reference stem, every day of the sexagenary cycle (query
\* stem and day branch) and each of the four event types, the keyword bonus
\* of 2 goes only to days rated ji2 (favorable): a day rated xiong1
\* (unfavorable) scores at most 1, a day rated zhong1ping2 (neutral) at most
\* 2, and every ranked day with a score of 3 or more is rated ji2.
C20_KeywordBonusOnlyFavorable ==
    \A k \in 1..Len(res) :
        /\ HasKeyword(res[k]) => res[k].rating = "ji2"
        /\ res[k].rating = "xiong1" => res[k].score <= 1
        /\ res[k].rating = "zhong1ping2" => res[k].score <= 2
        /\ res[k].score >= 3 => res[k].rating = "ji2"

\* an event type selected after the first, and a ranking in which a keyword
\* day scores above 3 while an unfavorable day and a neutral day reach their
\* bounds through the branch bonus
C20_Witness ==
    /\ res # <<>> /\ eventType = "mianshi"
    /\ \E k \in 1..Len(res) : HasKeyword(res[k]) /\ res[k].score >= 4
    /\ \E k \in 1..Len(res) : res[k].rating = "xiong1" /\ res[k].score = 1
    /\ \E k \in 1..Len(res) : res[k].rating = "zhong1ping2" /\ res[k].score = 2

\* the base branch of the triad markers: the day branch, the year branch
\* when there is no day branch, "" when there is neither
BaseBranch == IF CharAt(ssDay, 1) # "" THEN CharAt(ssDay, 1) ELSE CharAt(ssYear, 1)

\* the peach-blossom branch of the triad a branch belongs to
PeachOfTriad(b) ==
    CASE b \in {"shen1", "zi3", "chen2"} -> "you3"
      [] b \in {"yin2", "wu3", "xu1"}    -> "mao3"
      [] b \in {"hai4", "mao3", "wei4"}  -> "zi3"
      [] b \in {"si4", "you3", "chou3"}  -> "wu3"

\* C17: computeShenSha returns the peach-blossom marker (taohua) exactly when
\* the branch of the base branch's triad (shen1 zi3 chen2 -> you3, yin2 wu3
\* xu1 -> mao3, hai4 mao3 wei4 -> zi3, si4 you3 chou3 -> wu3) is among the
\* branches of the pillars present; the base branch is the day branch, and
\* the year branch only when there is no day branch.
C17_PeachByTriad ==
    ssPc = "done" =>
        (ArrIncludes(shensha, "taohua")
            <=> (BaseBranch \in BranchSet /\ PeachOfTriad(BaseBranch) \in BranchesPresent))

\* the four pillar derivations
Derivations == {"derivedDayStem", "derivedHourPillar", "activeBazi", "formPreview"}

\* the birth moment of the active profile as the wall clock shows it
WallDate == activeProfile.birthDate[1]
WallMs == activeProfile.birthTime[1] * MsPerMinute

\* the milliseconds from the wall-clock birth moment to what toTrueSolar returned
CorrectionMs == (solarMoment[1].date - WallDate) * MsPerDay + solarMoment[1].ms - WallMs

\* the meridian of the profile's zone: 15 degrees for each hour of UTC offset, east positive
StandardMeridian == 15 * (activeProfile.tz[1] \div 60)

\* C11: toTrueSolar on day 81 of the year with the longitude on the standard
\* meridian of the zone (120 degrees east for UTC+8) returns the moment it
\* was given, to within a minute: the equation-of-time term and the
\* longitude term of the correction are both 0.
C11_NoCorrectionOnMeridian ==
    (/\ solarMoment # <<>>
     /\ ~incomplete(activeProfile)
     /\ WallDate = 81
     /\ activeProfile.longitude = <<StandardMeridian>>)
        => /\ CorrectionMs > 0 - MsPerMinute
           /\ CorrectionMs < MsPerMinute

\* every derivation that has run took the day pillar from the date and the
\* hour pillar from the day stem and the hour
DerivedFrom(date, hour) ==
    LET gzDay  == getCalendarData(date).gzDay
        gzHour == getHourPillar(CharAt(gzDay, 0), hour)
    IN  /\ "derivedDayStem" \in evaluated => derivedDayStem = CharAt(gzDay, 0)
        /\ "derivedHourPillar" \in evaluated => derivedHourPillar = gzHour
        /\ "activeBazi" \in evaluated =>
              activeBazi # <<>> /\ activeBazi[1].gzDay = gzDay /\ activeBazi[1].gzHour = gzHour
        /\ "formPreview" \in evaluated =>
              formPreview # <<>> /\ formPreview[1].gzDay = gzDay /\ formPreview[1].hourPillar = gzHour

\* the same from the wall-clock birth moment
DerivedFromWall == DerivedFrom(WallDate, WallMs \div (60 * MsPerMinute))

\* the corrected moment of the active profile, which stores a longitude
Corrected ==
    toTrueSolar(WallDate, activeProfile.birthTime[1], activeProfile.tz[1], activeProfile.longitude[1])

\* C12, as claimed: in every pillar derivation (derivedDayStem,
\* derivedHourPillar, activeBazi, formPreview), when the useTrueSolar flag of
\* the profile is set the correction is applied first, and the date given to
\* the lunar conversion and the hour given to getHourPillar are those of the
\* corrected moment; when the flag is not set both are those of the
\* wall-clock moment in the profile's zone.
C12_CorrectedWhenFlag ==
    (~incomplete(activeProfile) /\ evaluated \cap Derivations # {}) =>
        IF activeProfile.useTrueSolar
        THEN /\ solarMoment # <<>>
             /\ DerivedFrom(solarMoment[1].date, solarMoment[1].ms \div (60 * MsPerMinute))
        ELSE DerivedFromWall

\* C12, amended: the correction is applied first when the flag is set and
\* the profile stores a longitude, and then the date and the hour are those
\* of the corrected moment; when the flag is not set, or no longitude is
\* stored, both are those of the wall-clock moment in the profile's zone.
C12_CorrectedWhenFlagAndLongitude ==
    (~incomplete(activeProfile) /\ evaluated \cap Derivations # {}) =>
        IF activeProfile.useTrueSolar /\ activeProfile.longitude # <<>>
        THEN /\ solarMoment = <<Corrected>>
             /\ DerivedFrom(Corrected.date, Corrected.ms \div (60 * MsPerMinute))
        ELSE /\ solarMoment = <<>>
             /\ DerivedFromWall

\* all four derivations have run with the flag set, and the correction has
\* crossed midnight: the day pillar is the next day's
C12_Witness ==
    /\ Derivations \subseteq evaluated
    /\ ~incomplete(activeProfile)
    /\ activeProfile.useTrueSolar /\ activeProfile.longitude # <<>>
    /\ solarMoment # <<>> /\ solarMoment[1].date = WallDate + 1
    /\ activeBazi[1].gzDay = getCalendarData(WallDate + 1).gzDay
    /\ derivedDayStem # CharAt(getCalendarData(WallDate).gzDay, 0)

\* C13: when the profile stores a longitude outside [-180, 180] and the
\* useTrueSolar flag is set, the correction is skipped: toTrueSolar's result
\* is not used and the pillars are those of the wall-clock moment, as when
\* the flag is not set.
C13_OutOfRangeSkipped ==
    (/\ ~incomplete(activeProfile) /\ evaluated \cap Derivations # {}
     /\ activeProfile.useTrueSolar
     /\ activeProfile.longitude # <<>>
     /\ (activeProfile.longitude[1] < 0 - 180 \/ activeProfile.longitude[1] > 180))
        => DerivedFromWall

\* C14: when the active profile lacks a birth date or a birth time,
\* derivedHourPillar is the empty string and activeBazi is null, so the chart
\* is drawn from the day stem's sample and not by computeFiveFromBazi, and
\* the preview, the one caller of computeShenSha, is null; the relation
\* analysis uses the day stem the profile stores, or ding1 when it stores none.
C14_NoChartWithoutBirthMoment ==
    (activeProfile.birthDate = <<>> \/ activeProfile.birthTime = <<>>) =>
        LET stem == IF activeProfile.dayStem # "" THEN activeProfile.dayStem ELSE "ding1"
        IN  /\ "derivedHourPillar" \in evaluated => derivedHourPillar = <<>>
            /\ "activeBazi" \in evaluated => activeBazi = <<>>
            /\ "formPreview" \in evaluated => formPreview = <<>>
            /\ "renderFiveChart" \in evaluated => chartData = fiveFromDayStem(stem)
            /\ "derivedDayStem" \in evaluated => derivedDayStem = stem
            /\ "fortune" \in evaluated =>
                  /\ afBazi = [dayStem |-> stem]
                  /\ fortune = analyzeFortune([dayStem |-> stem], afDayStem)
            /\ solarMoment = <<>>

\* a profile with a birth date and no birth time that stores no day stem:
\* everything has run, and the relation is the one of ding1
C14_Witness ==
    /\ activeProfile.birthDate # <<>> /\ activeProfile.birthTime = <<>>
    /\ activeProfile.dayStem = ""
    /\ evaluated = Derivations \cup {"fortune", "renderFiveChart"}
    /\ derivedHourPillar = <<>> /\ activeBazi = <<>> /\ formPreview = <<>>
    /\ afBazi.dayStem = "ding1" /\ fortune.relation = <<"yin4", "xing1">>
    /\ chartData[3] = 40

\* C21: activeProfileId is at all times the id of a profile of the list, so
\* that activeProfile is defined and is the profile selected, whatever
\* sequence of selection, startEdit, submitForm, resetForm and removeActive
\* has run.
C21_ActiveIdPresent ==
    /\ \E k \in 1..Len(profiles) : profiles[k].id = activeProfileId
    /\ activeProfile # NoProfile
    /\ activeProfile.id = activeProfileId

\* the calls whose body is in flight
InFlight == {c \in 1..Len(invocations) : invocations[c].pc = "body"}

\* C22: under any interleaving of calls of exportPdf and exportPdfFull at
\* most one body is in flight; exporting is true exactly while one is; a
\* call made while exporting is true returns without running its body; and
\* exporting is false again when the body has ended, by doc.save or by the
\* catch block after a throw.
C22_OneBodyAtATime ==
    /\ [](Cardinality(InFlight) <= 1 /\ (exporting <=> InFlight # {}))
    /\ [][/\ (exporting /\ Len(invocations') > Len(invocations))
              => /\ invocations'[Len(invocations')].pc = "skipped"
                 /\ InFlight' = InFlight
                 /\ exporting'
          /\ (\E c \in InFlight : invocations'[c].pc \in BodyEnds) => ~exporting']_vars

\* a third call is made while the body of the second is in flight, after the
\* body of the first ended in its catch block
C22_Witness ==
    /\ Len(invocations) = 3
    /\ invocations[1].pc = "alerted"
    /\ invocations[2].pc = "body" /\ invocations[2].awaits = 1
    /\ invocations[3].pc = "skipped"
    /\ exporting

====
